---- MODULE Spec2Model ----
(***************************************************************************)
(* Model of the ts-store transport layer of openGemini: the pooled         *)
(* WritePointsWork object, the wire-frame parser decodePoints, the         *)
(* dispatch entry points WritePoints and WriteStreamPoints, and the        *)
(* Server life cycle (Open, Run, MustClose).                               *)
(*                                                                         *)
(* Bytes are the integers 0..255.  A Go slice is modelled by the sequence  *)
(* of its elements (its length) together with its capacity.  An error is   *)
(* the tuple of its messages, outermost first; the nil error is empty.     *)
(***************************************************************************)
EXTENDS Integers, Sequences, FiniteSets, TLC

VARIABLES
  ww,        \* the WritePointsWork objects, by identity
  loc,       \* where each object is: "none" (not allocated), "out", "pooled"
  bufpool,   \* the raw-buffer pool (bufferpool): buffers by identity and capacity
  now,       \* fasttime.UnixTimestamp(), in seconds
  last,      \* the observable outcome of the last dispatch call
  srv,       \* the Server: closed channel, sub-servers, goroutines started
  pc         \* the position of each goroutine that calls MustClose

vars == <<ww, loc, bufpool, now, last, srv, pc>>

----------------------------------------------------------------------------
(* Bounds of the model *)

MaxRows == 2       \* rows the row-batch decoder yields for one payload
NWork == 2         \* WritePointsWork objects alive at once
NBuf == 2          \* raw request buffers alive at once
MaxTime == 11      \* the clock stops advancing here
NClosers == 3      \* goroutines that call Server.MustClose

(* Program constants *)

PackageTypeFast == 1   \* netstorage.PackageTypeFast, the fast-marshal tag
HeaderBlock == 16      \* ptId (4) + shard (8) + stream-shard count (4)
ShrinkFactor == 4      \* reset: len*4 > cap
ShrinkSeconds == 10    \* reset: now - lastResetTime > 10

\* error values: the nil error, errors.New(msg), errno.NewError(kind, cause)
Nil == <<>>
ErrorsNew(msg) == <<msg>>

Works == 1..NWork
Closers == 1..NClosers

Max(a, b) == IF a >= b THEN a ELSE b

----------------------------------------------------------------------------
(* Go slices *)

\* s[:k] of a slice whose length covers k
Take(s, k) == SubSeq(s, 1, k)

\* s[k:] of a slice whose length covers k
Drop(s, k) == SubSeq(s, k + 1, Len(s))

----------------------------------------------------------------------------
(* Fixed-width and variable-width integers of the wire format.  A uint32   *)
(* is kept as its two 16-bit halves and a uint64 as its four 16-bit        *)
(* quarters, most significant first, so that every bit pattern has a value.*)

\* encoding.UnmarshalUint32: big endian
UnmarshalUint32(b) == <<b[1] * 256 + b[2], b[3] * 256 + b[4]>>

\* (a decoder that takes the eight bytes least significant first)
UnmarshalUint64_LittleEndian(b) ==
  <<b[8] * 256 + b[7], b[6] * 256 + b[5], b[4] * 256 + b[3], b[2] * 256 + b[1]>>

\* encoding.UnmarshalUint64: big endian
UnmarshalUint64(b) ==
  <<b[1] * 256 + b[2], b[3] * 256 + b[4], b[5] * 256 + b[6], b[7] * 256 + b[8]>>

\* make([]uint64, sdLen): the length asked for.  Every length of 65536 or
\* more exceeds the number of bytes of any buffer considered here, and
\* UnmarshalVarUint64s then fails the same way, so those lengths are one case.
SliceLen(u) == IF u[1] = 0 THEN u[2] ELSE 65536

\* One variable-length integer after its first byte c >= 0x80: u is the value
\* so far, mult is 2^shift, k is the number of bytes consumed.
RECURSIVE VarUintRest(_, _, _, _, _)
VarUintRest(src, c, u, mult, k) ==
  IF c < 128 THEN [err |-> Nil, val |-> u, tail |-> src]
  ELSE IF Len(src) = 0 THEN
    [err |-> ErrorsNew("unexpected end of encoded varint"), val |-> 0, tail |-> <<>>]
  ELSE IF k > 9 THEN
    [err |-> ErrorsNew("too long encoded varint"), val |-> 0, tail |-> <<>>]
  ELSE VarUintRest(Tail(src), Head(src), u + (Head(src) % 128) * (mult * 128),
                   mult * 128, k + 1)

\* encoding.UnmarshalVarUint64s(dst, src) with len(dst) = n
RECURSIVE UnmarshalVarUint64s(_, _)
UnmarshalVarUint64s(n, src) ==
  IF n = 0 THEN [err |-> Nil, list |-> <<>>, tail |-> src]
  ELSE IF Len(src) = 0 THEN
    [err |-> ErrorsNew("cannot unmarshal varuint from empty data"), list |-> <<>>, tail |-> <<>>]
  ELSE LET one == VarUintRest(Tail(src), Head(src), Head(src) % 128, 1, 1) IN
    IF one.err # Nil THEN [err |-> one.err, list |-> <<>>, tail |-> <<>>]
    ELSE LET more == UnmarshalVarUint64s(n - 1, one.tail) IN
      IF more.err # Nil THEN more
      ELSE [err |-> Nil, list |-> <<one.val>> \o more.list, tail |-> more.tail]

----------------------------------------------------------------------------
(* The WritePointsWork object *)

\* &WritePointsWork{logger: ...}: every other field has its zero value.
\* storage and stream are TRUE when a reference is held and FALSE when nil;
\* bufId is the identity of the array behind reqBuf (0 when reqBuf is nil);
\* the scratch pools are opaque, so they are kept by their lengths.
NewWork ==
  [storage |-> FALSE, stream |-> FALSE,
   reqBuf |-> <<>>, reqCap |-> 0, bufId |-> 0,
   streamVars |-> <<>>,
   rows |-> <<>>, rowsCap |-> 0,
   tagpools |-> 0, fieldpools |-> 0, indexKeypools |-> 0, indexOptionpools |-> 0,
   lastResetTime |-> 0]

\* an influx.Row as the decoder leaves it, before the stream fields are set
NewRow == [StreamOnly |-> FALSE, StreamId |-> 0]

MismatchMsg == "unmarshal rows failed, the num of the rows is not equal to the stream vars"

Zero32 == <<0, 0>>
Zero64 == <<0, 0, 0, 0>>
NoPanic == "none"

\* What one call of decodePoints yields: its named results, the work object
\* as it leaves it, the number of entries it wrote to the error log, the
\* run-time panic that ended it (NoPanic when it returned), and whether
\* it indexed or sliced reqBuf at or beyond its length.
DecodeResult(w, e, db, rp, ptId, shard, list, bin) ==
  [panic |-> NoPanic, oob |-> FALSE, err |-> e, db |-> db, rp |-> rp,
   ptId |-> ptId, shard |-> shard, list |-> list, bin |-> bin, w |-> w,
   logs |-> IF e = Nil THEN 0 ELSE 1]

DecodePanic(w, p) ==
  [panic |-> p, oob |-> TRUE, err |-> Nil, db |-> <<>>, rp |-> <<>>,
   ptId |-> Zero32, shard |-> Zero64, list |-> <<>>, bin |-> <<>>, w |-> w,
   logs |-> 0]

\* lines 242-245: rows[i].StreamOnly, rows[i].StreamId = streamVars[i].Only, .Id
SetStreamVars(rows, streamVars) ==
  [i \in 1..Len(rows) |->
     [StreamOnly |-> streamVars[i].Only, StreamId |-> streamVars[i].Id]]

\* (a variant that only guards the indexing of streamVars)
StreamVarsMismatch_RowsInExcess(list, rows, streamVars) ==
  Len(list) > 0 /\ Len(rows) > Len(streamVars)

\* lines 233-235: stream-shard ids are present and the rows do not pair up
\* with the stream variables
StreamVarsMismatch(list, rows, streamVars) ==
  Len(list) > 0 /\ Len(rows) # Len(streamVars)

\* lines 199-249 of decodePoints: tail holds at least the 16-byte block.
\* dec is what influx.FastUnmarshalMultiRows yields for the payload: its
\* error, the number of rows, the number of entries left in each pool and
\* the capacity of the rows slice it needed.
decodeBody(w, dec, db, rp, tail) ==
  LET ptId == UnmarshalUint32(tail)
      t1 == Drop(tail, 4)
      shard == UnmarshalUint64(t1)
      t2 == Drop(t1, 8)
      sdLen == UnmarshalUint32(t2)
      t3 == Drop(t2, 4)
      vr == UnmarshalVarUint64s(SliceLen(sdLen), t3)
      rows == [i \in 1..dec.n |-> NewRow]
      w1 == [w EXCEPT !.rows = rows,
                      !.rowsCap = Max(w.rowsCap, dec.cap),
                      !.tagpools = dec.aux,
                      !.fieldpools = dec.aux,
                      !.indexKeypools = dec.aux,
                      !.indexOptionpools = dec.aux]
  IN
  IF vr.err # Nil THEN
    DecodeResult(w, vr.err, db, rp, ptId, shard, <<>>, <<>>)
  ELSE IF dec.err # Nil THEN
    DecodeResult(w1, dec.err, db, rp, ptId, shard, vr.list, vr.tail)
  ELSE IF StreamVarsMismatch(vr.list, w1.rows, w1.streamVars) THEN
    DecodeResult(w1, ErrorsNew(MismatchMsg),
                 db, rp, ptId, shard, vr.list, vr.tail)
  ELSE IF Len(vr.list) > 0 THEN
    DecodeResult([w1 EXCEPT !.rows = SetStreamVars(w1.rows, w1.streamVars)],
                 Nil, db, rp, ptId, shard, vr.list, vr.tail)
  ELSE DecodeResult(w1, Nil, db, rp, ptId, shard, vr.list, vr.tail)

\* (a tag test that lets every package type through)
IsFastPackage_Always(ty) == TRUE

\* ty == netstorage.PackageTypeFast, the test decodePoints negates
IsFastPackage(ty) == ty = PackageTypeFast

\* WritePointsWork.decodePoints.  spare is cap(tail) - len(tail), which
\* re-slicing from the front keeps.  tail[0] panics when tail is empty,
\* tail[:l] panics when l exceeds the capacity and otherwise reaches past the
\* length, tail[l:] panics when l exceeds the length.
decodePoints(w, dec) ==
  LET buf == w.reqBuf
      spare == w.reqCap - Len(w.reqBuf)
      Fail(e, db, rp) == DecodeResult(w, ErrorsNew(e), db, rp, Zero32, Zero64, <<>>, <<>>)
  IN
  IF Len(buf) < 2 THEN Fail("invalid points buffer", <<>>, <<>>)
  ELSE IF ~IsFastPackage(buf[1]) THEN
    Fail("not a fast marshal points package", <<>>, <<>>)
  ELSE
    LET t1 == Drop(buf, 1)
        l1 == t1[1]
    IN
    IF Len(t1) < l1 THEN Fail("no data for db name", <<>>, <<>>)
    ELSE
      LET t2 == Drop(t1, 1) IN
      IF l1 > Len(t2) + spare THEN
        DecodePanic(w, "slice bounds out of range [:l] with capacity")
      ELSE IF l1 > Len(t2) THEN
        DecodePanic(w, "slice bounds out of range [l:] with length")
      ELSE
        LET db == Take(t2, l1)
            t3 == Drop(t2, l1)
        IN
        IF Len(t3) = 0 THEN DecodePanic(w, "index out of range [0] with length 0")
        ELSE
          LET l2 == t3[1] IN
          IF Len(t3) < l2 THEN Fail("no data for rp name", db, <<>>)
          ELSE
            LET t4 == Drop(t3, 1) IN
            IF l2 > Len(t4) + spare THEN
              DecodePanic(w, "slice bounds out of range [:l] with capacity")
            ELSE IF l2 > Len(t4) THEN
              DecodePanic(w, "slice bounds out of range [l:] with length")
            ELSE
              LET rp == Take(t4, l2)
                  t5 == Drop(t4, l2)
              IN
              IF Len(t5) < HeaderBlock THEN Fail("no data for points data", db, rp)
              ELSE decodeBody(w, dec, db, rp, t5)

----------------------------------------------------------------------------
(* Dispatch: WritePoints and WriteStreamPoints *)

\* errno.NewError(errno.ErrUnmarshalPoints, cause): a non-nil *errno.Error
\* that wraps the cause, also when the cause is the nil error
NewError(kind, cause) == <<kind>> \o cause

\* A call made to a collaborator, in the order the calls are made: fn names
\* the callee, res is the error it returned, arg is the stream-id to
\* destination-shard map handed to the stream engine (a set of pairs).
Event(fn, res, arg) == [fn |-> fn, res |-> res, arg |-> arg]

\* What one dispatch call yields: the error and the inUse flag returned, the
\* calls made (decodePoints first), the number of error-log entries written, the decoded header, and the
\* replication mode config.IsReplication() reports.
Outcome(op, d, repl, err, inUse, calls, logs) ==
  [op |-> op, repl |-> repl, panic |-> d.panic, oob |-> d.oob, derr |-> d.err,
   err |-> err, inUse |-> inUse,
   trace |-> <<Event("decodePoints", d.err, {})>> \o calls,
   logs |-> d.logs + logs,
   db |-> d.db, rp |-> d.rp, ptId |-> d.ptId, shard |-> d.shard,
   list |-> d.list, bin |-> d.bin]

\* (a variant that forgets the primary write's error)
Replicates_IgnoringPrimary(err, repl) == repl

\* line 265: err == nil && config.IsReplication()
Replicates(err, repl) == err = Nil /\ repl

\* (a variant that writes to the replica before the primary)
WritePointsCall_ReplicaFirst(w, env) ==
  LET d == decodePoints(w, env.dec)
      write == Event("storage.WriteRows", env.writeErr, {})
      slave == Event("storage.WriteRowsToSlave", env.slaveErr, {})
  IN
  IF d.panic # NoPanic THEN
    Outcome("WritePoints", d, env.repl, Nil, FALSE, <<>>, 0)
  ELSE IF d.err # Nil THEN
    Outcome("WritePoints", d, env.repl, NewError("ErrUnmarshalPoints", d.err),
            FALSE, <<>>, 1)
  ELSE IF env.repl THEN
    Outcome("WritePoints", d, env.repl,
            IF env.slaveErr # Nil THEN env.slaveErr ELSE env.writeErr,
            FALSE, <<slave, write>>, 0)
  ELSE
    Outcome("WritePoints", d, env.repl, env.writeErr, FALSE, <<write>>,
            IF env.writeErr # Nil THEN 1 ELSE 0)

\* WritePointsWork.WritePoints.  env holds what the collaborators answer:
\* dec (the row-batch decoder), writeErr (storage.WriteRows), repl
\* (config.IsReplication()) and slaveErr (storage.WriteRowsToSlave).
WritePointsCall(w, env) ==
  LET d == decodePoints(w, env.dec)
      write == Event("storage.WriteRows", env.writeErr, {})
      slave == Event("storage.WriteRowsToSlave", env.slaveErr, {})
  IN
  IF d.panic # NoPanic THEN
    Outcome("WritePoints", d, env.repl, Nil, FALSE, <<>>, 0)
  ELSE IF d.err # Nil THEN
    Outcome("WritePoints", d, env.repl, NewError("ErrUnmarshalPoints", d.err),
            FALSE, <<>>, 1)
  ELSE IF Replicates(env.writeErr, env.repl) THEN
    Outcome("WritePoints", d, env.repl, env.slaveErr, FALSE, <<write, slave>>, 0)
  ELSE
    Outcome("WritePoints", d, env.repl, env.writeErr, FALSE, <<write>>,
            IF env.writeErr # Nil THEN 1 ELSE 0)

\* (a variant in which the first pair of a stream id is kept)
RECURSIVE StreamIdDstShardIdMap_FirstWins(_)
StreamIdDstShardIdMap_FirstWins(list) ==
  IF Len(list) < 2 THEN {}
  ELSE LET m == StreamIdDstShardIdMap_FirstWins(Drop(list, 2))
       IN {p \in m : p[1] # list[1]} \cup {<<list[1], list[2]>>}

\* lines 294-296: streamIdDstShardIdMap[list[i]] = list[i+1] for i = 0, 2, ...
\* over a list of even length; a later pair replaces an earlier one with the
\* same stream id.
RECURSIVE StreamIdDstShardIdMap(_)
StreamIdDstShardIdMap(list) ==
  IF Len(list) < 2 THEN {}
  ELSE LET n == Len(list)
           m == StreamIdDstShardIdMap(Take(list, n - 2))
       IN {p \in m : p[1] # list[n - 1]} \cup {<<list[n - 1], list[n]>>}

\* line 285: ww.stream == nil || len(streamShardIdList) == 0
NoStreamWork(stream, list) == ~stream \/ Len(list) = 0

\* (a variant without the check)
OddLength_Never(list) == FALSE

\* line 290: len(streamShardIdList)%2 != 0
OddLength(list) == Len(list) % 2 # 0

\* (a variant that forgets the primary write's error)
Dispatches_IgnoringError(err, list) == Len(list) > 0

\* line 297: err == nil && len(streamShardIdList) > 0
Dispatches(err, list) == err = Nil /\ Len(list) > 0

\* (a variant that tests the length of the list before it writes anything)
WriteStreamPointsCall_ValidatesFirst(w, env) ==
  LET d == decodePoints(w, env.dec)
      write == Event("storage.WriteRows", env.writeErr, {})
      wlogs == IF env.writeErr # Nil THEN 1 ELSE 0
  IN
  IF d.panic # NoPanic THEN
    Outcome("WriteStreamPoints", d, env.repl, Nil, FALSE, <<>>, 0)
  ELSE IF d.err # Nil THEN
    Outcome("WriteStreamPoints", d, env.repl, NewError("ErrUnmarshalPoints", d.err),
            FALSE, <<>>, 1)
  ELSE IF ~NoStreamWork(d.w.stream, d.list) /\ OddLength(d.list) THEN
    Outcome("WriteStreamPoints", d, env.repl,
            NewError("ErrUnmarshalPoints", Nil), FALSE, <<>>, 0)
  ELSE IF NoStreamWork(d.w.stream, d.list) THEN
    Outcome("WriteStreamPoints", d, env.repl, env.writeErr, FALSE, <<write>>, wlogs)
  ELSE IF Dispatches(env.writeErr, d.list) THEN
    Outcome("WriteStreamPoints", d, env.repl, env.writeErr, TRUE,
            <<write, Event("stream.WriteRows", Nil, StreamIdDstShardIdMap(d.list))>>,
            wlogs)
  ELSE
    Outcome("WriteStreamPoints", d, env.repl, env.writeErr, FALSE, <<write>>, wlogs)

\* (a variant that does after decodePoints what WritePoints does)
WriteStreamPointsCall_Mirrors(w, env) ==
  [WritePointsCall(w, env) EXCEPT !.op = "WriteStreamPoints"]

\* WritePointsWork.WriteStreamPoints
WriteStreamPointsCall(w, env) ==
  LET d == decodePoints(w, env.dec)
      write == Event("storage.WriteRows", env.writeErr, {})
      wlogs == IF env.writeErr # Nil THEN 1 ELSE 0
  IN
  IF d.panic # NoPanic THEN
    Outcome("WriteStreamPoints", d, env.repl, Nil, FALSE, <<>>, 0)
  ELSE IF d.err # Nil THEN
    Outcome("WriteStreamPoints", d, env.repl, NewError("ErrUnmarshalPoints", d.err),
            FALSE, <<>>, 1)
  ELSE IF NoStreamWork(d.w.stream, d.list) THEN
    Outcome("WriteStreamPoints", d, env.repl, env.writeErr, FALSE, <<write>>, wlogs)
  ELSE IF OddLength(d.list) THEN
    Outcome("WriteStreamPoints", d, env.repl,
            NewError("ErrUnmarshalPoints", env.writeErr), FALSE, <<write>>, wlogs)
  ELSE IF Dispatches(env.writeErr, d.list) THEN
    Outcome("WriteStreamPoints", d, env.repl, env.writeErr, TRUE,
            <<write, Event("stream.WriteRows", Nil, StreamIdDstShardIdMap(d.list))>>,
            wlogs)
  ELSE
    Outcome("WriteStreamPoints", d, env.repl, env.writeErr, FALSE, <<write>>, wlogs)

\* no dispatch call has been made yet
NoOutcome ==
  [op |-> "none", repl |-> FALSE, panic |-> NoPanic, oob |-> FALSE, derr |-> Nil, err |-> Nil,
   inUse |-> FALSE, trace |-> <<>>, logs |-> 0, db |-> <<>>, rp |-> <<>>,
   ptId |-> Zero32, shard |-> Zero64, list |-> <<>>, bin |-> <<>>]

\* what the collaborators may answer
\* (each row brings one entry into each scratch pool; cap is the capacity the
\* rows slice needs, which append may round up)
DecoderResults ==
  {[err |-> e, n |-> n, aux |-> n, cap |-> n] :
     e \in {Nil, ErrorsNew("unmarshal rows failed")}, n \in 0..MaxRows}

\* (the replica answers only when replication is enabled)
Envs ==
  {env \in [dec : DecoderResults,
            writeErr : {Nil, ErrorsNew("write rows failed")},
            repl : BOOLEAN,
            slaveErr : {Nil, ErrorsNew("write rows to slave failed")}] :
     env.repl \/ env.slaveErr = Nil}

----------------------------------------------------------------------------
(* Request buffers: the frames a client sends, cut short or damaged *)

MarshalUint16(n) == <<n \div 256, n % 256>>

\* encoding.MarshalUint32 / MarshalUint64 of a value kept by 16-bit parts
MarshalUint32(u) == MarshalUint16(u[1]) \o MarshalUint16(u[2])

MarshalUint64(u) ==
  MarshalUint16(u[1]) \o MarshalUint16(u[2]) \o MarshalUint16(u[3]) \o MarshalUint16(u[4])

\* encoding.MarshalVarUint64
RECURSIVE MarshalVarUint64(_)
MarshalVarUint64(v) ==
  IF v < 128 THEN <<v>> ELSE <<128 + (v % 128)>> \o MarshalVarUint64(v \div 128)

RECURSIVE MarshalVarUint64s(_)
MarshalVarUint64s(list) ==
  IF list = <<>> THEN <<>>
  ELSE MarshalVarUint64(Head(list)) \o MarshalVarUint64s(Tail(list))

\* the layout decodePoints reads: tag, L1, db, L2, rp, ptId, shard, N, N varints, payload
MarshalFrame(f) ==
  <<PackageTypeFast, Len(f.db)>> \o f.db \o <<Len(f.rp)>> \o f.rp
    \o MarshalUint32(f.ptId) \o MarshalUint64(f.shard)
    \o MarshalUint32(<<0, Len(f.list)>>) \o MarshalVarUint64s(f.list) \o f.payload

StreamShardIdLists ==
  {<<>>, <<5>>, <<5, 6>>, <<5, 6, 7>>, <<5, 6, 8, 9>>, <<5, 6, 5, 9>>, <<300, 6>>}

Frames ==
  [db : {<<>>, <<100>>}, rp : {<<>>, <<114, 112>>}, ptId : {<<0, 258>>},
   shard : {<<0, 0, 1, 42>>}, list : StreamShardIdLists, payload : {<<9>>}]

Prefixes(b) == {Take(b, n) : n \in 0..Len(b)}

\* a frame with one byte replaced
Damaged(b) ==
  {[b EXCEPT ![1] = 0]}
    \cup {[b EXCEPT ![2] = @ + 1]}
    \cup {[b EXCEPT ![2] = 200]}
    \cup {[b EXCEPT ![3 + b[2]] = @ + 1]}
    \cup {[b EXCEPT ![16 + 3 + b[2] + b[3 + b[2]]] = @ + 1]}

\* the first bytes of a frame under another tag
WrongTag(b) == {[Take(b, n) EXCEPT ![1] = t] : n \in 1..3, t \in {0, 2}}

RequestBuffers ==
  UNION {Prefixes(MarshalFrame(f)) \cup Damaged(MarshalFrame(f))
           \cup WrongTag(MarshalFrame(f)) : f \in Frames}

\* the stream variables a caller supplies beside the buffer
StreamVarLists ==
  {<<>>, <<[Only |-> TRUE, Id |-> 5]>>,
   <<[Only |-> TRUE, Id |-> 5], [Only |-> FALSE, Id |-> 8]>>}

\* spare capacity of a request buffer beyond its length
Spares == {0, 2}

----------------------------------------------------------------------------
(* The work-object pool and the raw-buffer pool *)

\* (a variant that leaves streamVars as they are)
reset_KeepsStreamVars(w, t) ==
  LET shrink == (Len(w.reqBuf) * ShrinkFactor > w.reqCap
                   \/ Len(w.rows) * ShrinkFactor > w.rowsCap)
                /\ t - w.lastResetTime > ShrinkSeconds
      w1 == IF shrink
            THEN [w EXCEPT !.reqBuf = <<>>, !.reqCap = 0, !.bufId = 0,
                           !.rows = <<>>, !.rowsCap = 0,
                           !.lastResetTime = t]
            ELSE w
  IN [w1 EXCEPT !.tagpools = 0, !.fieldpools = 0, !.indexKeypools = 0,
                !.indexOptionpools = 0,
                !.storage = FALSE, !.stream = FALSE,
                !.rows = <<>>, !.reqBuf = <<>>]

\* WritePointsWork.reset
reset(w, t) ==
  LET shrink == (Len(w.reqBuf) * ShrinkFactor > w.reqCap
                   \/ Len(w.rows) * ShrinkFactor > w.rowsCap)
                /\ t - w.lastResetTime > ShrinkSeconds
      w1 == IF shrink
            THEN [w EXCEPT !.reqBuf = <<>>, !.reqCap = 0, !.bufId = 0,
                           !.rows = <<>>, !.rowsCap = 0,
                           !.lastResetTime = t]
            ELSE w
  IN [w1 EXCEPT !.tagpools = 0, !.fieldpools = 0, !.indexKeypools = 0,
                !.indexOptionpools = 0,
                !.storage = FALSE, !.stream = FALSE,
                !.rows = <<>>, !.reqBuf = <<>>, !.streamVars = <<>>]

\* bufferpool.PutPoints(b): the buffer becomes obtainable from the raw-buffer
\* pool; a nil slice has no buffer behind it
PutPoints(pool, w) ==
  IF w.bufId = 0 THEN pool ELSE pool \cup {[id |-> w.bufId, cap |-> w.reqCap]}

\* buffers in nobody's hands: neither behind the reqBuf of an object other
\* than i nor in the raw-buffer pool
FreeBufs(i) ==
  {b \in 1..NBuf :
     /\ \A j \in Works \ {i} : loc[j] = "none" \/ ww[j].bufId # b
     /\ \A e \in bufpool : e.id # b}

\* GetWritePointsWork: an object of the pool, or a new one when Get finds none
GetWritePointsWork(i) ==
  /\ \/ /\ loc[i] = "pooled"
        /\ ww' = ww
     \/ /\ loc[i] = "none"
        /\ ww' = [ww EXCEPT ![i] = NewWork]
  /\ loc' = [loc EXCEPT ![i] = "out"]
  /\ UNCHANGED <<bufpool, now, last, srv, pc>>

\* The holder of a checked-out object fills it for one request: the storage
\* and stream references, the stream variables, and a request buffer, which
\* was taken from the raw-buffer pool or newly allocated.
FillWork(w, id, cap, bytes, sv, stream) ==
  [w EXCEPT !.storage = TRUE, !.stream = stream, !.streamVars = sv,
            !.reqBuf = bytes, !.reqCap = cap, !.bufId = id]

SetRequest(i, bufs, spares, svs) ==
  /\ loc[i] = "out"
  /\ \E bytes \in bufs, sv \in svs, stream \in BOOLEAN :
       \/ \E e \in bufpool :
            /\ e.cap >= Len(bytes)
            /\ ww' = [ww EXCEPT ![i] = FillWork(@, e.id, e.cap, bytes, sv, stream)]
            /\ bufpool' = bufpool \ {e}
       \/ \E spare \in spares :
            /\ FreeBufs(i) # {}
            /\ LET b == CHOOSE x \in FreeBufs(i) : \A y \in FreeBufs(i) : x <= y IN
                 ww' = [ww EXCEPT
                          ![i] = FillWork(@, b, Len(bytes) + spare, bytes, sv, stream)]
            /\ bufpool' = bufpool
  /\ last' = NoOutcome
  /\ UNCHANGED <<loc, now, srv, pc>>

\* one call of WritePoints on a checked-out object
WritePoints(i, envs) ==
  /\ loc[i] = "out"
  /\ ww[i].storage
  /\ \E env \in envs :
       /\ last' = WritePointsCall(ww[i], env)
       /\ ww' = [ww EXCEPT ![i] = decodePoints(@, env.dec).w]
  /\ UNCHANGED <<loc, bufpool, now, srv, pc>>

\* one call of WriteStreamPoints on a checked-out object
WriteStreamPoints(i, envs) ==
  /\ loc[i] = "out"
  /\ ww[i].storage
  /\ \E env \in envs :
       /\ last' = WriteStreamPointsCall(ww[i], env)
       /\ ww' = [ww EXCEPT ![i] = decodePoints(@, env.dec).w]
  /\ UNCHANGED <<loc, bufpool, now, srv, pc>>

\* PutWritePointsWork
PutWritePointsWork(i) ==
  /\ loc[i] = "out"
  /\ bufpool' = PutPoints(bufpool, ww[i])
  /\ ww' = [ww EXCEPT ![i] = reset(@, now)]
  /\ loc' = [loc EXCEPT ![i] = "pooled"]
  /\ last' = NoOutcome
  /\ UNCHANGED <<now, srv, pc>>

\* sync.Pool lets go of a pooled object
PoolDrop(i) ==
  /\ loc[i] = "pooled"
  /\ loc' = [loc EXCEPT ![i] = "none"]
  /\ ww' = [ww EXCEPT ![i] = NewWork]
  /\ UNCHANGED <<bufpool, now, last, srv, pc>>

\* the clock advances
Tick ==
  /\ \E d \in {ShrinkSeconds, ShrinkSeconds + 1} :
       /\ now + d <= MaxTime
       /\ now' = now + d
  /\ UNCHANGED <<ww, loc, bufpool, last, srv, pc>>

----------------------------------------------------------------------------
(* The Server *)

\* NewServer: closed is an open channel, no listener is open.  closes counts
\* the executions of close(s.closed); opens lists the listeners whose Open was
\* called, in order, each with the error it answered; running is the set of
\* goroutines Run has started.
NewServer ==
  [closed |-> FALSE, closes |-> 0, panicked |-> FALSE,
   opened |-> FALSE, opens |-> <<>>, openErr |-> Nil,
   running |-> {}, selectClosed |-> FALSE, insertClosed |-> FALSE]

\* (a variant that opens the select listener whatever the insert listener
\* answered)
OpenCalls_Both(ie, se) ==
  <<[srv |-> "insertServer", err |-> ie], [srv |-> "selectServer", err |-> se]>>

\* the listeners Server.Open calls Open on, in order
OpenCalls(ie, se) ==
  IF ie # Nil THEN <<[srv |-> "insertServer", err |-> ie]>>
  ELSE <<[srv |-> "insertServer", err |-> ie], [srv |-> "selectServer", err |-> se]>>

\* Server.Open: ie and se are what insertServer.Open and selectServer.Open answer
Open(ie, se) ==
  /\ ~srv.opened
  /\ ~srv.panicked
  /\ srv' = [srv EXCEPT
               !.opened = TRUE,
               !.opens = OpenCalls(ie, se),
               !.openErr = IF ie # Nil THEN <<"cannot create a server">> \o ie
                           ELSE IF se # Nil THEN <<"cannot create a server">> \o se
                           ELSE Nil]
  /\ UNCHANGED <<ww, loc, bufpool, now, last, pc>>

\* Server.Run: stream tells whether a stream engine is supplied
Run(stream) ==
  /\ srv.opened
  /\ srv.openErr = Nil
  /\ srv.running = {}
  /\ ~srv.panicked
  /\ srv' = [srv EXCEPT
               !.running = {"insertServer.Run", "selectServer.Run"}
                             \cup (IF stream THEN {"stream.Run"} ELSE {})]
  /\ UNCHANGED <<ww, loc, bufpool, now, last, pc>>

\* (a setIsStopping without the select: it goes on to close the channel
\* whatever the channel's state)
SetIsStoppingSelect_NoCheck(c) ==
  /\ pc[c] = "idle"
  /\ ~srv.panicked
  /\ pc' = [pc EXCEPT ![c] = "default"]
  /\ UNCHANGED <<ww, loc, bufpool, now, last, srv>>

\* A goroutine calls MustClose and enters setIsStopping: the select statement
\* finds the channel closed (the receive is ready) or takes its default branch.
SetIsStoppingSelect(c) ==
  /\ pc[c] = "idle"
  /\ ~srv.panicked
  /\ pc' = [pc EXCEPT ![c] = IF srv.closed THEN "closeSelect" ELSE "default"]
  /\ UNCHANGED <<ww, loc, bufpool, now, last, srv>>

\* the default branch: close(s.closed), a panic on a channel already closed
SetIsStoppingClose(c) ==
  /\ pc[c] = "default"
  /\ ~srv.panicked
  /\ srv' = [srv EXCEPT !.closed = TRUE,
                        !.closes = @ + 1,
                        !.panicked = srv.closed]
  /\ pc' = [pc EXCEPT ![c] = IF srv.closed THEN "panic" ELSE "closeSelect"]
  /\ UNCHANGED <<ww, loc, bufpool, now, last>>

\* s.selectServer.Close()
CloseSelectServer(c) ==
  /\ pc[c] = "closeSelect"
  /\ ~srv.panicked
  /\ srv' = [srv EXCEPT !.selectClosed = TRUE]
  /\ pc' = [pc EXCEPT ![c] = "closeInsert"]
  /\ UNCHANGED <<ww, loc, bufpool, now, last>>

\* s.insertServer.Close(), after which MustClose returns
CloseInsertServer(c) ==
  /\ pc[c] = "closeInsert"
  /\ ~srv.panicked
  /\ srv' = [srv EXCEPT !.insertClosed = TRUE]
  /\ pc' = [pc EXCEPT ![c] = "done"]
  /\ UNCHANGED <<ww, loc, bufpool, now, last>>

\* the goroutine is free to call MustClose again
MustCloseReturned(c) ==
  /\ pc[c] = "done"
  /\ ~srv.panicked
  /\ pc' = [pc EXCEPT ![c] = "idle"]
  /\ UNCHANGED <<ww, loc, bufpool, now, last, srv>>

----------------------------------------------------------------------------
(* Specifications *)

InitWorks ==
  /\ ww = [i \in Works |-> NewWork]
  /\ loc = [i \in Works |-> "none"]
  /\ bufpool = {}
  /\ now = 0
  /\ last = NoOutcome

InitServer ==
  /\ srv = NewServer
  /\ pc = [c \in Closers |-> "idle"]

\* Dispatch of one request: a new work object is filled with a request
\* buffer and one of the two entry points is called on it.
Init ==
  /\ \E bytes \in RequestBuffers, spare \in Spares, sv \in StreamVarLists,
        stream \in BOOLEAN :
       ww = [i \in Works |->
               IF i = 1
               THEN FillWork(NewWork, 1, Len(bytes) + spare, bytes, sv, stream)
               ELSE NewWork]
  /\ loc = [i \in Works |-> IF i = 1 THEN "out" ELSE "none"]
  /\ bufpool = {}
  /\ now = 0
  /\ last = NoOutcome
  /\ InitServer

Next ==
  /\ last.op = "none"
  /\ \E i \in Works : WritePoints(i, Envs) \/ WriteStreamPoints(i, Envs)

Spec == Init /\ [][Next]_vars

\* The life cycle of the pooled work objects
PoolBuffers ==
  {MarshalFrame([db |-> <<100>>, rp |-> <<>>, ptId |-> <<0, 258>>,
                 shard |-> <<0, 0, 1, 42>>, list |-> <<5, 6>>, payload |-> <<9>>])}

PoolStreamVars == {<<[Only |-> TRUE, Id |-> 5]>>}

PoolSpares == {0, 100}

\* (one row is decoded, into a rows slice grown to fit or to four times that;
\* the storage engine accepts the write and replication is off)
PoolEnvs ==
  {[dec |-> [err |-> Nil, n |-> 1, aux |-> 1, cap |-> c],
    writeErr |-> Nil, repl |-> FALSE, slaveErr |-> Nil] : c \in {1, ShrinkFactor}}

InitPool == InitWorks /\ InitServer

NextPool ==
  \/ \E i \in Works : GetWritePointsWork(i)
  \/ \E i \in Works : SetRequest(i, PoolBuffers, PoolSpares, PoolStreamVars)
  \/ \E i \in Works : WritePoints(i, PoolEnvs)
  \/ \E i \in Works : WriteStreamPoints(i, PoolEnvs)
  \/ \E i \in Works : PutWritePointsWork(i)
  \/ \E i \in Works : PoolDrop(i)
  \/ Tick

SpecPool == InitPool /\ [][NextPool]_vars

\* The life cycle of the Server
NextServer ==
  \/ \E ie, se \in {Nil, ErrorsNew("listen failed")} : Open(ie, se)
  \/ \E stream \in BOOLEAN : Run(stream)
  \/ \E c \in Closers :
       \/ SetIsStoppingSelect(c)
       \/ SetIsStoppingClose(c)
       \/ CloseSelectServer(c)
       \/ CloseInsertServer(c)
       \/ MustCloseReturned(c)

InitIdleServer == InitWorks /\ InitServer

SpecServer == InitIdleServer /\ [][NextServer]_vars

\* The life cycle of a Server whose MustClose is called by one goroutine at
\* a time: a call begins only when no other call is in progress.
SequentialMustClose(c) ==
  /\ \A d \in Closers : pc[d] \in {"idle", "done"}
  /\ SetIsStoppingSelect(c)

NextSequential ==
  \/ \E ie, se \in {Nil, ErrorsNew("listen failed")} : Open(ie, se)
  \/ \E stream \in BOOLEAN : Run(stream)
  \/ \E c \in Closers :
       \/ SequentialMustClose(c)
       \/ SetIsStoppingClose(c)
       \/ CloseSelectServer(c)
       \/ CloseInsertServer(c)
       \/ MustCloseReturned(c)

SpecSequential == InitIdleServer /\ [][NextSequential]_vars

----------------------------------------------------------------------------
(* Properties of one dispatch call (specification Spec).  The request is    *)
(* the one work object 1 holds; last is what the call on it yielded.        *)

Req == ww[1]

Called == last.op # "none"

\* decodePoints returned a nil error
DecodeOk == Called /\ last.panic = NoPanic /\ last.derr = Nil

\* decodePoints did not: it returned an error or ended in a run-time panic
DecodeFailed == Called /\ (last.panic # NoPanic \/ last.derr # Nil)

\* the frame was parsed and the row-batch decoder returned its rows
RowsDecoded ==
  Called /\ last.panic = NoPanic /\ last.derr \in {Nil, ErrorsNew(MismatchMsg)}

\* positions of the calls to fn among the calls made
CallsTo(fn) == {k \in 1..Len(last.trace) : last.trace[k].fn = fn}

\* nothing was called after decodePoints
NoDownstreamCall == Len(last.trace) = 1

PrimaryReturnedNil ==
  \E k \in CallsTo("storage.WriteRows") : last.trace[k].res = Nil

MismatchError == NewError("ErrUnmarshalPoints", ErrorsNew(MismatchMsg))

(* C1: for every request buffer decodePoints never indexes or slices the    *)
(* buffer at or beyond its length: each parse step finds the bytes it needs *)
(* or returns its error.                                                    *)
C1_NeverPastTheEnd == Called => (~last.oob /\ last.panic = NoPanic)

(* C2 as claimed: whenever the number of stream variables differs from the  *)
(* number of decoded rows, the call returns the routing-mismatch error and  *)
(* makes no downstream call, also when the stream-shard id list is empty.   *)
C2_MismatchAlwaysFails ==
  (RowsDecoded /\ Len(Req.rows) # Len(Req.streamVars))
    => (last.err = MismatchError /\ NoDownstreamCall)

(* C2 amended: whenever the stream-shard id list is not empty and the       *)
(* number of stream variables differs from the number of decoded rows, the  *)
(* call returns the routing-mismatch error and makes no downstream call.    *)
C2_MismatchFailsWithStreamShards ==
  (RowsDecoded /\ Len(last.list) > 0 /\ Len(Req.rows) # Len(Req.streamVars))
    => (last.err = MismatchError /\ NoDownstreamCall)

C2_Witness ==
  /\ RowsDecoded
  /\ Len(last.list) > 0
  /\ Len(Req.rows) < Len(Req.streamVars)
  /\ last.err = MismatchError

(* C3 as claimed: for every request whose stream-shard id list has odd      *)
(* length WriteStreamPoints returns a non-nil error, does not call          *)
(* stream.WriteRows and reports inUse = false, with or without a stream     *)
(* engine.                                                                  *)
C3_OddListAlwaysFails ==
  (last.op = "WriteStreamPoints" /\ Len(last.list) % 2 = 1)
    => (last.err # Nil /\ CallsTo("stream.WriteRows") = {} /\ ~last.inUse)

(* C3 amended: for every request whose stream-shard id list has odd length  *)
(* WriteStreamPoints does not call stream.WriteRows and reports             *)
(* inUse = false, and it returns a non-nil error whenever a stream engine   *)
(* is attached.                                                             *)
C3_OddListFailsWithStreamEngine ==
  (last.op = "WriteStreamPoints" /\ Len(last.list) % 2 = 1)
    => /\ CallsTo("stream.WriteRows") = {}
       /\ ~last.inUse
       /\ Req.stream => last.err # Nil

C3_Witness ==
  /\ last.op = "WriteStreamPoints"
  /\ Len(last.list) % 2 = 1
  /\ DecodeOk
  /\ PrimaryReturnedNil
  /\ Req.stream
  /\ last.err # Nil

(* C4: WritePoints calls the replica write exactly when decode succeeded,   *)
(* storage.WriteRows returned nil and replication is enabled, and then      *)
(* returns the replica write's result; when storage.WriteRows fails the     *)
(* replica write is not called and that error is returned.                  *)
C4_ReplicaWrite ==
  last.op = "WritePoints" =>
    LET slaves == CallsTo("storage.WriteRowsToSlave")
        writes == CallsTo("storage.WriteRows")
    IN /\ slaves # {} <=> (DecodeOk /\ PrimaryReturnedNil /\ last.repl)
       /\ Cardinality(slaves) <= 1
       /\ \A k \in slaves : last.err = last.trace[k].res
       /\ \A k \in writes :
            last.trace[k].res # Nil => (slaves = {} /\ last.err = last.trace[k].res)

C4_Witness ==
  /\ last.op = "WritePoints"
  /\ PrimaryReturnedNil
  /\ \E k \in CallsTo("storage.WriteRowsToSlave") :
       last.trace[k].res # Nil /\ last.err = last.trace[k].res

(* C5: in every call decodePoints completes first, storage.WriteRows is     *)
(* called only after it succeeded, and the replica write or the stream      *)
(* dispatch is called only after storage.WriteRows has returned.            *)
C5_CallOrder ==
  \A k \in 1..Len(last.trace) :
    LET fn == last.trace[k].fn IN
    /\ fn = "decodePoints" <=> k = 1
    /\ fn = "storage.WriteRows" => (k = 2 /\ DecodeOk)
    /\ fn \in {"storage.WriteRowsToSlave", "stream.WriteRows"}
         => (k = 3 /\ last.trace[2].fn = "storage.WriteRows")

C5_Witness ==
  /\ Len(last.trace) = 3
  /\ last.trace[3].fn = "storage.WriteRowsToSlave"

(* C6: for every request in which decodePoints fails, WritePoints and       *)
(* WriteStreamPoints return a non-nil error to the caller and call neither  *)
(* storage.WriteRows nor the replica write nor the stream engine.           *)
C6_DecodeFailureIsReturned ==
  DecodeFailed => (last.panic = NoPanic /\ last.err # Nil /\ NoDownstreamCall)

(* C7: WriteStreamPoints reports inUse = true if and only if it called      *)
(* stream.WriteRows, once; that is exactly when decode succeeded,           *)
(* storage.WriteRows returned nil, a stream engine is attached and the      *)
(* stream-shard id list is non-empty and of even length.  In every other    *)
(* outcome the stream engine is not called and inUse is false.              *)
C7_InUseIffDispatched ==
  LET streams == CallsTo("stream.WriteRows") IN
  /\ last.inUse <=> Cardinality(streams) = 1
  /\ Cardinality(streams) <= 1
  /\ last.inUse <=>
       /\ last.op = "WriteStreamPoints"
       /\ DecodeOk
       /\ PrimaryReturnedNil
       /\ Req.stream
       /\ Len(last.list) > 0
       /\ Len(last.list) % 2 = 0

C7_Witness ==
  /\ last.op = "WriteStreamPoints"
  /\ last.inUse
  /\ CallsTo("stream.WriteRows") = {3}

\* the map the pairs of the list denote: each source stream id with the
\* destination of the last pair it occurs in
PairsMap(list) ==
  LET pairs == 1..(Len(list) \div 2) IN
  {<<list[2 * k - 1], list[2 * k]>> :
     k \in {k \in pairs : \A j \in pairs : j > k => list[2 * j - 1] # list[2 * k - 1]}}

(* C8: the map handed to the stream engine is the one the stream-shard id   *)
(* list denotes when read two entries at a time as (source stream id,       *)
(* destination shard id), with the later pair winning for a repeated id.    *)
C8_StreamMap ==
  \A k \in CallsTo("stream.WriteRows") : last.trace[k].arg = PairsMap(last.list)

C8_Witness ==
  /\ last.list = <<5, 6, 5, 9>>
  /\ \E k \in CallsTo("stream.WriteRows") : last.trace[k].arg = {<<5, 9>>}

----------------------------------------------------------------------------
(* Properties of the work-object pool (specification SpecPool)              *)

\* the object carries nothing of a request
Clean(w) ==
  /\ Len(w.rows) = 0
  /\ w.tagpools = 0
  /\ w.fieldpools = 0
  /\ w.indexKeypools = 0
  /\ w.indexOptionpools = 0
  /\ Len(w.streamVars) = 0
  /\ Len(w.reqBuf) = 0
  /\ ~w.storage
  /\ ~w.stream

(* C9: every work object that GetWritePointsWork returns from the pool,     *)
(* where PutWritePointsWork left it, carries no state of the previous       *)
(* request: rows, the four scratch pools, streamVars and reqBuf have        *)
(* length 0 and the storage and stream references are nil.                  *)
C9_CheckoutIsClean ==
  [][\A i \in Works : (loc[i] = "pooled" /\ loc'[i] = "out") => Clean(ww'[i])]_vars

\* an object checked out again after a request that decoded rows into it
C9_Witness ==
  \E i \in Works :
    /\ loc[i] = "out"
    /\ ww[i].rowsCap > 0
    /\ ww[i].bufId # 0
    /\ Clean(ww[i])

----------------------------------------------------------------------------
(* Properties of the Server (specification SpecServer)                      *)

(* C10: under every interleaving of concurrent MustClose calls the closed   *)
(* channel is closed exactly once, never a second time.                     *)
C10_ClosedAtMostOnce == srv.closes <= 1 /\ ~srv.panicked

(* C11: with MustClose called sequentially, a call that has returned leaves *)
(* the closed channel closed, a closed channel stays closed in every later  *)
(* state, and no later call closes it again or panics.                      *)
C11_ClosedIsTerminal ==
  [][/\ \A c \in Closers : pc'[c] = "done" => srv'.closed
     /\ srv.closed => /\ srv'.closed
                      /\ srv'.closes = srv.closes
                      /\ ~srv'.panicked]_vars

\* two calls made one after the other have both returned
C11_Witness ==
  /\ pc[1] = "done"
  /\ pc[2] = "done"
  /\ srv.closed
  /\ srv.closes = 1
  /\ srv.selectClosed
  /\ srv.insertClosed
----------------------------------------------------------------------------
(* Further properties of one dispatch call (specification Spec)             *)

(* C12: every non-empty request buffer whose first byte is not the          *)
(* fast-marshal tag is rejected, whatever its other bytes and its length:   *)
(* decodePoints returns a non-nil error, so does the entry point, and       *)
(* neither a storage write, a replica write nor a stream dispatch is made.  *)
C12_WrongTagRejected ==
  (Called /\ Len(Req.reqBuf) > 0 /\ Req.reqBuf[1] # PackageTypeFast)
    => /\ last.panic = NoPanic
       /\ last.derr # Nil
       /\ last.err # Nil
       /\ NoDownstreamCall
       /\ ~last.inUse

\* a whole frame, valid but for its tag, was handed to an entry point
C12_Witness ==
  /\ Called
  /\ Len(Req.reqBuf) > HeaderBlock
  /\ Req.reqBuf[1] = 0
  /\ last.derr = ErrorsNew("not a fast marshal points package")
\* decodePoints parsed the whole frame: what it returned, if an error, is
\* the row-batch decoder's or the count check's
FrameParsed ==
  /\ last.panic = NoPanic
  /\ last.derr \in {Nil, ErrorsNew("unmarshal rows failed"), ErrorsNew(MismatchMsg)}

(* C13: for every valid frame (tag, L1, db name, L2, rp name, 4-byte        *)
(* partition id, 8-byte shard id, 4-byte count N, N varints, payload)       *)
(* decodePoints returns exactly the encoded db name, rp name, partition id, *)
(* shard id and the N stream-shard ids in order, and hands exactly the      *)
(* remaining bytes to the row-batch decoder as the payload.                 *)
C13_RoundTrip ==
  \A f \in Frames :
    (Called /\ Req.reqBuf = MarshalFrame(f))
      => /\ FrameParsed
         /\ last.db = f.db
         /\ last.rp = f.rp
         /\ last.ptId = f.ptId
         /\ last.shard = f.shard
         /\ last.list = f.list
         /\ last.bin = f.payload

\* a frame with both names, a two-byte varint among its stream-shard ids
\* and no spare capacity was decoded
C13_Witness ==
  /\ DecodeOk
  /\ Req.reqCap = Len(Req.reqBuf)
  /\ last.db = <<100>>
  /\ last.rp = <<114, 112>>
  /\ last.ptId = <<0, 258>>
  /\ last.shard = <<0, 0, 1, 42>>
  /\ last.list = <<300, 6>>
  /\ last.bin = <<9>>
PrimaryFailed ==
  \E k \in CallsTo("storage.WriteRows") : last.trace[k].res # Nil

\* WriteStreamPoints reached its test of the list's length and found it odd
OddListRejected ==
  /\ last.op = "WriteStreamPoints"
  /\ DecodeOk
  /\ Req.stream
  /\ OddLength(last.list)

(* C18: every failing WritePoints or WriteStreamPoints call (a decode       *)
(* error of any kind, the routing mismatch, an odd-length stream-shard id   *)
(* list, a failed primary write) writes exactly one entry to the error log. *)
C18_LoggedOnce ==
  (Called /\ last.panic = NoPanic
     /\ (last.derr # Nil \/ PrimaryFailed \/ OddListRejected))
    => last.logs = 1

(* C19: when decodePoints succeeds, a stream engine is attached and the     *)
(* stream-shard id list has odd length, WriteStreamPoints returns a non-nil *)
(* error after it has called storage.WriteRows exactly once: the primary    *)
(* write is its last call, nothing is dispatched and nothing undoes it.     *)
C19_WrittenThoughFailed ==
  OddListRejected
    => /\ last.err # Nil
       /\ ~last.inUse
       /\ Len(last.trace) = 2
       /\ last.trace[2].fn = "storage.WriteRows"

\* the rows of a request reported as failed are in primary storage
C19_Witness ==
  /\ OddListRejected
  /\ PrimaryReturnedNil
  /\ last.err # Nil
  /\ Len(last.list) = 3

(* C20: WriteStreamPoints never calls storage.WriteRowsToSlave, whatever    *)
(* the request and the replication mode, whereas WritePoints on a request   *)
(* that decodes and is written to primary storage under replication does.   *)
C20_StreamPathNotMirrored ==
  /\ last.op = "WriteStreamPoints" => CallsTo("storage.WriteRowsToSlave") = {}
  /\ (last.op = "WritePoints" /\ last.repl /\ DecodeOk /\ PrimaryReturnedNil)
       => CallsTo("storage.WriteRowsToSlave") # {}

\* under replication WriteStreamPoints wrote to primary storage and
\* dispatched to the stream engine
C20_Witness ==
  /\ last.op = "WriteStreamPoints"
  /\ last.repl
  /\ DecodeOk
  /\ PrimaryReturnedNil
  /\ CallsTo("stream.WriteRows") # {}
  /\ CallsTo("storage.WriteRowsToSlave") = {}

----------------------------------------------------------------------------
(* Further properties of the Server (specification SpecServer)              *)

(* C14: Server.Open opens the insert listener first and the select listener *)
(* second; when the insert listener's Open fails, Open returns a non-nil    *)
(* error and the select listener's Open is not called; Open returns nil     *)
(* only if both listeners opened.                                           *)
C14_OpenOrder ==
  srv.opened
    => /\ Len(srv.opens) \in {1, 2}
       /\ srv.opens[1].srv = "insertServer"
       /\ Len(srv.opens) = 2 => srv.opens[2].srv = "selectServer"
       /\ srv.opens[1].err # Nil => (srv.openErr # Nil /\ Len(srv.opens) = 1)
       /\ srv.openErr = Nil
            => (Len(srv.opens) = 2 /\ \A k \in 1..2 : srv.opens[k].err = Nil)

\* Open was called on a server whose insert listener cannot open
C14_Witness ==
  /\ srv.opened
  /\ srv.opens = <<[srv |-> "insertServer", err |-> ErrorsNew("listen failed")]>>
  /\ srv.openErr # Nil
----------------------------------------------------------------------------
(* Further properties of the work-object pool (specification SpecPool)      *)

\* the work objects other than i that exist, in the pool or checked out
Others(i) == {j \in Works \ {i} : loc[j] # "none"}

(* C15: a request buffer has one holder at a time: the buffer behind the    *)
(* reqBuf of a work object, pooled or checked out, is not at the same time  *)
(* obtainable from the raw-buffer pool, and no two work objects have the    *)
(* same buffer behind their reqBuf.                                         *)
C15_ExclusiveBuffer ==
  \A i \in Works :
    (loc[i] # "none" /\ ww[i].bufId # 0)
      => /\ \A e \in bufpool : e.id # ww[i].bufId
         /\ \A j \in Others(i) : ww[j].bufId # ww[i].bufId
\* PutWritePointsWork is applied to object i, whose reqBuf has a buffer
\* behind it
PutWithBuffer(i) == loc[i] = "out" /\ loc'[i] = "pooled" /\ ww[i].bufId # 0

(* C16: reset drops the request buffer exactly when its capacity is at      *)
(* least 4 times its length and at least 10 seconds have passed since       *)
(* lastResetTime; in every other case it keeps the buffer, with its         *)
(* capacity, and sets its length to zero.                                   *)
C16_DroppedIffGrown ==
  [][\A i \in Works :
       PutWithBuffer(i)
         => IF /\ ww[i].reqCap >= ShrinkFactor * Len(ww[i].reqBuf)
               /\ now - ww[i].lastResetTime >= ShrinkSeconds
            THEN ww'[i].bufId = 0 /\ ww'[i].reqCap = 0
            ELSE /\ ww'[i].bufId = ww[i].bufId
                 /\ ww'[i].reqCap = ww[i].reqCap
                 /\ Len(ww'[i].reqBuf) = 0]_vars
\* the test reset makes of one slice, and of the time since lastResetTime
ShrinkTest(len, cap) == len * ShrinkFactor > cap

ShrinkDue(w) == now - w.lastResetTime > ShrinkSeconds

(* C17: rows and reqBuf shrink independently: reset drops rows only when    *)
(* rows itself meets the shrink test and the time has passed, and drops     *)
(* reqBuf only when reqBuf itself does; when only one of the two meets the  *)
(* test the capacity of the other is unchanged.                             *)
C17_IndependentShrink ==
  [][\A i \in Works :
       (loc[i] = "out" /\ loc'[i] = "pooled")
         => /\ ww'[i].rowsCap # ww[i].rowsCap
                 => (ShrinkTest(Len(ww[i].rows), ww[i].rowsCap) /\ ShrinkDue(ww[i]))
            /\ ww'[i].reqCap # ww[i].reqCap
                 => (ShrinkTest(Len(ww[i].reqBuf), ww[i].reqCap) /\ ShrinkDue(ww[i]))]_vars
====
